---- MODULE Spec2Model ----
(***************************************************************************)
(* Agent lifecycle and heartbeat supervisor of the GOBI agents.            *)
(*                                                                         *)
(* One agent object per behaviour; `variant` says which class it is:       *)
(*   GOBIAgent         src/gobi-main/agent_runtime.py                      *)
(*   GOBILocalAgent    src/gobi-main/test_agent.py                         *)
(*   GOBILiveKitAgent  src/gobi-main/livekit_agent.py                      *)
(*   HeartbeatClient   src/web-ui/livekit-agents/heartbeat_client.py       *)
(* The main thread calls login / deploy_agent / start / stop and runs the  *)
(* signal handler; every start spawns a daemon heartbeat thread.  Spec is  *)
(* untimed: a sleep, a join timeout and a network call end at any moment,  *)
(* so every interleaving of the threads is a behaviour.                    *)
(* HeartbeatClient runs on one asyncio event loop: its coroutines take     *)
(* turns, and a step of the model is the code between two awaits.          *)
(*                                                                         *)
(* Four more specifications look at one aspect each:                       *)
(*   TimedSpec   the heartbeat loops under a clock (cadence, uptime)       *)
(*   CallSpec    the call counters of GOBILiveKitAgent and the metrics of  *)
(*               its reports                                               *)
(*   ModuleSpec  init_heartbeat / start_heartbeat / stop_heartbeat of      *)
(*               heartbeat_client.py, called by the entrypoints            *)
(*   LiveSpec    GOBIAgent with its heartbeat threads scheduled fairly     *)
(***************************************************************************)
EXTENDS Integers, Sequences, FiniteSets, TLC

\* Bounds of the model.
MaxStarts == 2      \* heartbeat threads spawned (and STOPPED reports of a livekit agent)
MaxBeats  == 2      \* RUNNING reports issued
MaxNow    == 1      \* clock readings 0..MaxNow
MaxTime   == 7      \* seconds the clock of the timed specification runs
MaxCalls  == 2      \* entrypoint invocations of the call specification
MaxEntrypoints == 3 \* entrypoint invocations of the module specification

ThreadVariants == {"GOBIAgent", "GOBILocalAgent", "GOBILiveKitAgent"}
SignalVariants == {"GOBIAgent", "GOBILocalAgent"}
Variants       == ThreadVariants \cup {"HeartbeatClient"}

AgentIds       == {"a1", "a2"}
LoginResponses == {"200", "200_no_token", "401", "exception"}
HttpResponses  == {"200", "404", "500", "exception"}
\* What deploy_agent can get: as above, or a 200 whose body has no 'agent'.
DeployResponses == HttpResponses \cup {"200_no_agent"}
BeatResponses  == {"200", "500", "exception"}
ClientResponses == {"200", "200_no_success", "500", "timeout", "exception"}
StopCallers    == {"caller", "handler"}
Threads        == 1..MaxStarts
Entrypoints    == 1..MaxEntrypoints

\* Seconds.
DefaultInterval == 30
JoinTimeout     == 2

VARIABLES
    variant,           \* the class of the agent object
    access_token,      \* "None" or "tok"
    is_authenticated,  \* GOBIAgent only
    agent_id,          \* "None" or an identifier
    is_running,
    start_time,        \* <<>> (None) or <<t>>
    heartbeat_thread,  \* 0 (None) or the thread last spawned
    hb,                \* position of each heartbeat thread in heartbeat_loop
    mainPc,            \* position of the main thread: "idle", or inside stop()
    stopCaller,        \* who called the stop() in progress ("signal" is kept at exit)
    exited,            \* the process has exited (sys.exit)
    now,               \* the last reading of the clock
    reports,           \* heartbeat requests issued, in order: "RUNNING" / "STOPPED"
    loginOk,           \* history: some login returned True
    deployOk,          \* history: some deploy_agent returned True
    beatOk,            \* history: some RUNNING / STOPPED / heartbeat request was answered 200
    termRun,           \* history: a signal was delivered during the current run
    stoppedAttempted,  \* history: the STOPPED request of the current run was attempted
    session,           \* HeartbeatClient: 0 (None) or the ClientSession in self.session
    openSessions,      \* HeartbeatClient: the sessions created and not closed
    cancelled,         \* HeartbeatClient: tasks with a cancel() not yet delivered
    stopPc,            \* HeartbeatClient: position of each stop() coroutine
    stopTask,          \* HeartbeatClient: the task each stop() coroutine awaits
    heartbeat_interval, \* the interval of the loop, in clock ticks
    agent_config,      \* GOBILiveKitAgent: "empty" ({}) or "full"
    total_calls,
    successful_calls,
    rooms,             \* rooms connected with an on_disconnect handler registered
    metrics,           \* the metrics of the report a heartbeat thread is building
    wakeAt,            \* the time at which the sleep of each heartbeat loop ends
    joinBy,            \* the time at which the join in progress times out
    beatLog,           \* the reports issued under the clock: run, time, uptime
    heartbeat_client,  \* the module's _heartbeat_client: 0 (None) or a client
    clients,           \* the state of each HeartbeatClient the module created
    entryPc            \* the position of each entrypoint invocation

agentVars == <<access_token, is_authenticated, agent_id, is_running, start_time,
               heartbeat_thread>>
histVars  == <<loginOk, deployOk, beatOk, termRun, stoppedAttempted>>
clientVars == <<session, openSessions, cancelled, stopPc, stopTask>>
callVars == <<total_calls, successful_calls, rooms, metrics>>
timeVars == <<heartbeat_interval, wakeAt, joinBy, beatLog>>
moduleVars == <<heartbeat_client, clients, entryPc>>
auxVars == <<callVars, timeVars, moduleVars>>
vars == <<auxVars, agent_config, session, openSessions, cancelled, stopPc, stopTask, variant, access_token, is_authenticated, agent_id, is_running, start_time,
          heartbeat_thread, hb, mainPc, stopCaller, exited, now, reports,
          loginOk, deployOk, beatOk, termRun, stoppedAttempted>>

NumOf(status) == Cardinality({i \in DOMAIN reports : reports[i] = status})

\* The constructor's agent_id: GOBIAgent starts without one, GOBILocalAgent with
\* its default, GOBILiveKitAgent with the optional argument, HeartbeatClient
\* with the required one.
InitAgentIds(v) ==
    CASE v = "GOBIAgent"        -> {"None"}
      [] v = "GOBILocalAgent"   -> {"a1"}
      [] v = "GOBILiveKitAgent" -> {"None", "a1"}
      [] v = "HeartbeatClient"  -> {"a1"}

\* The state after the constructor of class v, heartbeat_interval then set to
\* `interval` by the caller (the constructors set DefaultInterval).
Constructed(v, interval) ==
    /\ variant = v
    /\ heartbeat_interval = interval
    /\ agent_config = (IF v = "GOBILiveKitAgent" THEN "empty" ELSE "None")
    /\ total_calls = 0
    /\ successful_calls = 0
    /\ rooms = 0
    /\ metrics = [t \in Threads |-> <<>>]
    /\ wakeAt = [t \in Threads |-> 0]
    /\ joinBy = 0
    /\ beatLog = <<>>
    /\ heartbeat_client = 0
    /\ clients = [c \in Entrypoints |-> "none"]
    /\ entryPc = [e \in Entrypoints |-> [pc |-> "idle", client |-> 0]]
    /\ access_token = "None"
    /\ is_authenticated = FALSE
    /\ agent_id \in InitAgentIds(variant)
    /\ is_running = FALSE
    /\ start_time = <<>>
    /\ heartbeat_thread = 0
    /\ hb = [t \in Threads |-> "none"]
    /\ mainPc = "idle"
    /\ stopCaller = "none"
    /\ exited = FALSE
    /\ now = 0
    /\ reports = <<>>
    /\ loginOk = FALSE
    /\ deployOk = FALSE
    /\ beatOk = FALSE
    /\ termRun = FALSE
    /\ stoppedAttempted = FALSE
    /\ session = 0
    /\ openSessions = {}
    /\ cancelled = {}
    /\ stopPc = [c \in StopCallers |-> "idle"]
    /\ stopTask = [c \in StopCallers |-> 0]

Init == \E v \in Variants : Constructed(v, DefaultInterval)

\* What datetime.now() may return: never less than the last reading.
ClockReadings == now..MaxNow

----------------------------------------------------------------------------
\* login

\* login without its `if response.status_code == 200`.
LoginResult_NoStatusCheck(resp) == resp # "exception"

\* The value login returns: True for a 200 (with or without an accessToken in
\* its body), False for any other status and for an exception.
LoginResult(resp) == resp \in {"200", "200_no_token"}

\* The session's Authorization header: absent until a login succeeds, then
\* "Bearer " followed by the access_token of the last successful login.
Authorization == IF loginOk THEN <<access_token>> ELSE <<>>

Login(resp) ==
    /\ variant \in ThreadVariants
    /\ ~exited /\ mainPc = "idle"
    /\ IF LoginResult(resp)
         THEN /\ access_token' = IF resp = "200" THEN "tok" ELSE "None"
              /\ is_authenticated' =
                    IF variant = "GOBIAgent" THEN TRUE ELSE is_authenticated
              /\ loginOk' = TRUE
         ELSE UNCHANGED <<access_token, is_authenticated, loginOk>>
    /\ UNCHANGED <<auxVars, agent_config, clientVars, variant, agent_id, is_running, start_time, heartbeat_thread, hb,
                   mainPc, stopCaller, exited, now, reports, deployOk, beatOk,
                   termRun, stoppedAttempted>>

----------------------------------------------------------------------------
\* get_agent and list_agents (GOBIAgent): they read the backend and change
\* nothing in the object.

\* Whether get_agent / list_agents issue their request.
GetAgentIssues == is_authenticated
ListAgentsIssues == is_authenticated

\* What they return: the data of a 200, None otherwise.
GetAgentResult(resp) == IF GetAgentIssues /\ resp = "200" THEN "agent" ELSE "None"
ListAgentsResult(resp) == IF ListAgentsIssues /\ resp = "200" THEN "agents" ELSE "None"

GetAgent(id, resp) ==
    /\ variant = "GOBIAgent"
    /\ ~exited /\ mainPc = "idle"
    /\ GetAgentResult(resp) \in {"agent", "None"}
    /\ UNCHANGED vars

ListAgents(resp) ==
    /\ variant = "GOBIAgent"
    /\ ~exited /\ mainPc = "idle"
    /\ ListAgentsResult(resp) \in {"agents", "None"}
    /\ UNCHANGED vars

----------------------------------------------------------------------------
\* deploy_agent

\* deploy_agent without its `if not self.is_authenticated` guard.
DeployIssues_NoAuthCheck == TRUE

\* Whether deploy_agent issues its request: GOBIAgent refuses when not logged in.
DeployIssues == variant = "GOBIAgent" => is_authenticated

\* deploy_agent without its `if response.status_code == 200`.
DeployResult_NoStatusCheck(resp) == resp # "exception"

\* The value deploy_agent returns for a response: True for 200 (whatever the
\* body), False for any other status and for an exception.
DeployResult(resp) == resp \in {"200", "200_no_agent"}

\* data.get('agent', {}): the configuration in the body of a 200 response.
AgentInBody(resp) == IF resp = "200" THEN "full" ELSE "empty"

\* Everything the caller gets from deploy_agent(id) answered `resp`: the value
\* returned, and the agent_id and (GOBILiveKitAgent) the agent_config left in
\* the object.
DeployOutcome(id, resp) ==
    IF DeployIssues /\ DeployResult(resp)
      THEN [ret |-> TRUE,
            agent_id |-> IF variant = "GOBILocalAgent" THEN agent_id ELSE id,
            agent_config |-> IF variant = "GOBILiveKitAgent" THEN AgentInBody(resp)
                                                            ELSE agent_config]
      ELSE [ret |-> FALSE, agent_id |-> agent_id, agent_config |-> agent_config]

Deploy(id, resp) ==
    /\ variant \in ThreadVariants
    /\ ~exited /\ mainPc = "idle"
    /\ variant = "GOBILocalAgent" => id = agent_id
    /\ agent_id' = DeployOutcome(id, resp).agent_id
    /\ agent_config' = DeployOutcome(id, resp).agent_config
    /\ deployOk' = (deployOk \/ DeployOutcome(id, resp).ret)
    /\ UNCHANGED <<auxVars, clientVars, variant, access_token, is_authenticated, is_running, start_time,
                   heartbeat_thread, hb, mainPc, stopCaller, exited, now, reports,
                   loginOk, beatOk, termRun, stoppedAttempted>>

----------------------------------------------------------------------------
\* start (GOBIAgent, GOBILocalAgent) and start_heartbeat (GOBILiveKitAgent)

\* start without its `if not self.agent_id` guard.
StartResult_NoDeployCheck ==
    CASE variant = "GOBIAgent"        -> ~is_running
      [] variant = "GOBILocalAgent"   -> ~is_running
      [] variant = "GOBILiveKitAgent" -> TRUE

\* start without its `if self.is_running` guard.
StartResult_NoRunningCheck ==
    CASE variant = "GOBIAgent"        -> agent_id # "None"
      [] variant = "GOBILocalAgent"   -> TRUE
      [] variant = "GOBILiveKitAgent" -> TRUE

\* Whether start goes past its guards, which is also the value it returns;
\* start_heartbeat has no guard.
StartResult ==
    CASE variant = "GOBIAgent"        -> agent_id # "None" /\ ~is_running
      [] variant = "GOBILocalAgent"   -> ~is_running
      [] variant = "GOBILiveKitAgent" -> TRUE

Start ==
    /\ variant \in ThreadVariants
    /\ ~exited /\ mainPc = "idle"
    /\ IF StartResult
         THEN /\ heartbeat_thread < MaxStarts
              /\ is_running' = TRUE
              /\ \E t \in ClockReadings : now' = t /\ start_time' = <<t>>
              /\ heartbeat_thread' = heartbeat_thread + 1
              /\ hb' = [hb EXCEPT ![heartbeat_thread + 1] = "loop"]
              /\ termRun' = FALSE
              /\ stoppedAttempted' = FALSE
         ELSE UNCHANGED <<is_running, start_time, now, heartbeat_thread, hb, termRun,
                          stoppedAttempted>>
    /\ UNCHANGED <<auxVars, agent_config, clientVars, variant, access_token, is_authenticated, agent_id, mainPc,
                   stopCaller, exited, reports, loginOk, deployOk, beatOk>>

----------------------------------------------------------------------------
\* heartbeat_loop, one step per thread at a time.  A thread is at "loop" when
\* it is about to evaluate `while self.is_running` (just spawned, or in the
\* sleep that ends an iteration) and at "send" when it has found is_running
\* True and is about to call send_heartbeat.

\* RUNNING reports still allowed by the bound.
BeatBudget ==
    NumOf("RUNNING") + Cardinality({t \in Threads : hb[t] = "send"}) < MaxBeats

\* while self.is_running (after time.sleep returned, from the second pass on)
\* heartbeat_loop written as `while True`.
LoopCondition_WhileTrue == TRUE

\* The condition of heartbeat_loop: `while self.is_running`.
LoopCondition == is_running

HbCheck(t) ==
    /\ ~exited /\ hb[t] = "loop"
    /\ LoopCondition => BeatBudget
    /\ hb' = [hb EXCEPT ![t] = IF LoopCondition THEN "send" ELSE "done"]
    /\ UNCHANGED <<auxVars, agent_config, clientVars, variant, agentVars, mainPc, stopCaller, exited, now, reports,
                   histVars>>

\* send_heartbeat's guard: without it no request is issued.
HeartbeatIssues ==
    /\ agent_id # "None"
    /\ variant = "GOBIAgent" => is_authenticated

\* send_heartbeat without its `except Exception`: the exception ends the thread.
AfterHeartbeat_Raises(resp) == IF resp = "exception" THEN "done" ELSE "loop"

\* heartbeat_loop leaving its loop when send_heartbeat returns False.
AfterHeartbeat_EndsOnError(resp) == IF resp = "200" THEN "loop" ELSE "done"

\* Where the thread is after send_heartbeat got `resp`: a status other than 200
\* and an exception are logged, send_heartbeat returns False and the loop goes
\* on to its sleep.
AfterHeartbeat(resp) == "loop"

\* send_heartbeat: the RUNNING report is issued and answered `resp`.
HbSend(t, resp) ==
    /\ ~exited /\ hb[t] = "send"
    /\ IF HeartbeatIssues
         THEN /\ reports' = Append(reports, "RUNNING")
              /\ hb' = [hb EXCEPT ![t] = AfterHeartbeat(resp)]
              /\ beatOk' = (beatOk \/ resp = "200")
         ELSE /\ hb' = [hb EXCEPT ![t] = "loop"]
              /\ UNCHANGED <<reports, beatOk>>
    /\ UNCHANGED <<auxVars, agent_config, clientVars, variant, agentVars, mainPc, stopCaller, exited, now,
                   loginOk, deployOk, termRun, stoppedAttempted>>

----------------------------------------------------------------------------
\* stop (GOBIAgent, GOBILocalAgent) and stop_heartbeat (GOBILiveKitAgent)

\* stop without its `if not self.is_running: return`.
StopProceeds_NoGuard == TRUE

\* Whether stop goes past its guard; stop_heartbeat has none.
StopProceeds == variant = "GOBILiveKitAgent" \/ is_running

\* The call of stop() by the program, up to self.is_running = False.
StopBegin ==
    /\ variant \in ThreadVariants
    /\ ~exited /\ mainPc = "idle"
    /\ variant = "GOBILiveKitAgent" => NumOf("STOPPED") < MaxStarts
    /\ IF StopProceeds
         THEN /\ is_running' = FALSE
              /\ mainPc' = "join"
              /\ stopCaller' = "api"
         ELSE UNCHANGED <<is_running, mainPc, stopCaller>>
    /\ UNCHANGED <<auxVars, agent_config, clientVars, variant, access_token, is_authenticated, agent_id, start_time,
                   heartbeat_thread, hb, exited, now, reports, histVars>>

\* join() without its timeout: it returns only when the thread has finished.
JoinReturns_NoTimeout(t, timedOut) == hb[t] = "done"

\* join(timeout=2) on thread t returns: the thread has finished, or it is still
\* alive and the timeout has elapsed.
JoinReturns(t, timedOut) ==
    IF timedOut THEN hb[t] # "done" ELSE hb[t] = "done"

StopJoin ==
    /\ ~exited /\ mainPc = "join"
    /\ heartbeat_thread # 0 =>
          \E timedOut \in BOOLEAN : JoinReturns(heartbeat_thread, timedOut)
    /\ mainPc' = "post"
    /\ UNCHANGED <<auxVars, agent_config, clientVars, variant, agentVars, hb, stopCaller, exited, now, reports, histVars>>

\* Whether stop sends the STOPPED report (stop_heartbeat always does).
StopNotifies == variant = "GOBILiveKitAgent" \/ agent_id # "None"

\* stop without the try / except around its request: an exception of the
\* request leaves stop at once, back to the caller.
AfterStopPost_Raises(resp) == IF resp = "exception" THEN "idle" ELSE "stats"

\* Where stop is after its STOPPED request got `resp`: the response is not
\* looked at and the bare except swallows an exception, so the statistics follow.
AfterStopPost(resp) == "stats"

\* The STOPPED request inside try / bare except: whatever comes back, stop goes on.
StopPost(resp) ==
    /\ ~exited /\ mainPc = "post"
    /\ IF StopNotifies
         THEN /\ reports' = Append(reports, "STOPPED")
              /\ stoppedAttempted' = TRUE
              /\ beatOk' = (beatOk \/ resp = "200")
              /\ mainPc' = AfterStopPost(resp)
         ELSE /\ mainPc' = "stats"
              /\ UNCHANGED <<reports, stoppedAttempted, beatOk>>
    /\ UNCHANGED <<auxVars, agent_config, clientVars, variant, agentVars, hb, stopCaller, exited, now, loginOk,
                   deployOk, termRun>>

\* The process exits: its daemon heartbeat threads end with it.
Killed == [t \in Threads |-> IF hb[t] = "none" THEN "none" ELSE "killed"]

\* The statistics are printed and stop returns: to the program, or to
\* _signal_handler, which calls sys.exit(0).
StopReturn ==
    /\ ~exited /\ mainPc = "stats"
    /\ mainPc' = "idle"
    /\ stopCaller' = IF stopCaller = "signal" THEN "signal" ELSE "none"
    /\ exited' = (stopCaller = "signal")
    /\ hb' = IF stopCaller = "signal" THEN Killed ELSE hb
    /\ UNCHANGED <<auxVars, agent_config, clientVars, variant, agentVars, now, reports, histVars>>

----------------------------------------------------------------------------
\* _signal_handler: self.stop(); sys.exit(0), run in the main thread wherever
\* it is.

\* The handler finds the agent running: its stop() starts the stop sequence.
SignalStops ==
    /\ mainPc = "idle" /\ is_running
    /\ is_running' = FALSE
    /\ mainPc' = "join"
    /\ stopCaller' = "signal"
    /\ UNCHANGED <<hb, exited, reports, stoppedAttempted>>

\* The handler's stop() returns at once (not running, or a stop in progress
\* has cleared is_running) and sys.exit(0) raises SystemExit where the main
\* thread was: outside stop's try block the process exits.
SignalExits ==
    /\ \/ mainPc = "idle" /\ ~is_running
       \/ mainPc \in {"join", "stats"}
       \/ mainPc = "post" /\ ~StopNotifies
    /\ exited' = TRUE
    /\ hb' = Killed
    /\ UNCHANGED <<is_running, mainPc, stopCaller, reports, stoppedAttempted>>

\* SystemExit raised inside stop's try block is caught by the bare except:
\* the STOPPED request is abandoned, sent or not, and stop goes on.
SignalSwallowed(sent) ==
    /\ mainPc = "post" /\ StopNotifies
    /\ mainPc' = "stats"
    /\ reports' = IF sent THEN Append(reports, "STOPPED") ELSE reports
    /\ stoppedAttempted' = (stoppedAttempted \/ sent)
    /\ UNCHANGED <<is_running, stopCaller, exited, hb>>

Signal ==
    /\ ~exited /\ variant \in SignalVariants
    /\ termRun' = (termRun \/ is_running \/ mainPc # "idle")
    /\ \/ SignalStops
       \/ SignalExits
       \/ \E sent \in BOOLEAN : SignalSwallowed(sent)
    /\ UNCHANGED <<auxVars, agent_config, clientVars, variant, access_token, is_authenticated, agent_id, start_time,
                   heartbeat_thread, now, loginOk, deployOk, beatOk>>

----------------------------------------------------------------------------
\* HeartbeatClient.  running is is_running, heartbeat_task is heartbeat_thread,
\* and hb gives each task's position in _heartbeat_loop: "new" (created, not
\* run yet), "inflight" (awaiting the heartbeat request), "sleep", "done".

threadVars == <<access_token, is_authenticated, agent_id, start_time, mainPc,
                stopCaller, exited, now, loginOk, deployOk, termRun,
                stoppedAttempted>>

\* Whether start() goes past its guard.
ClientStartProceeds == ~is_running

\* start(): no await in it.
ClientStart ==
    /\ variant = "HeartbeatClient"
    /\ IF ClientStartProceeds
         THEN /\ heartbeat_thread < MaxStarts
              /\ is_running' = TRUE
              /\ session' = heartbeat_thread + 1
              /\ openSessions' = openSessions \cup {heartbeat_thread + 1}
              /\ heartbeat_thread' = heartbeat_thread + 1
              /\ hb' = [hb EXCEPT ![heartbeat_thread + 1] = "new"]
         ELSE UNCHANGED <<is_running, session, openSessions, heartbeat_thread, hb>>
    /\ UNCHANGED <<auxVars, agent_config, variant, threadVars, reports, beatOk, cancelled, stopPc, stopTask>>

\* A cancel() delivered to a task at its await (or before its first step):
\* CancelledError ends _heartbeat_loop, whatever the task was waiting for.
TaskCancelled(t) ==
    /\ variant = "HeartbeatClient"
    /\ hb[t] \in {"new", "inflight", "sleep"} /\ t \in cancelled
    /\ hb' = [hb EXCEPT ![t] = "done"]
    /\ cancelled' = cancelled \ {t}
    /\ UNCHANGED <<auxVars, agent_config, variant, threadVars, is_running, session, openSessions,
                   heartbeat_thread, reports, beatOk, stopPc, stopTask>>

\* _send_heartbeat issues its request: self.session is set and open (a post on
\* a closed session raises, which _send_heartbeat catches).
ClientHeartbeatIssues == session # 0 /\ session \in openSessions

ClientBeatBudget == NumOf("HEARTBEAT") < MaxBeats

\* while self.running, then _send_heartbeat up to its request.
TaskLoop(t) ==
    /\ variant = "HeartbeatClient"
    /\ hb[t] \in {"new", "sleep"} /\ t \notin cancelled
    /\ is_running => ClientBeatBudget
    /\ IF ~is_running
         THEN /\ hb' = [hb EXCEPT ![t] = "done"]
              /\ UNCHANGED reports
         ELSE IF ClientHeartbeatIssues
           THEN /\ hb' = [hb EXCEPT ![t] = "inflight"]
                /\ reports' = Append(reports, "HEARTBEAT")
           ELSE /\ hb' = [hb EXCEPT ![t] = "sleep"]
                /\ UNCHANGED reports
    /\ UNCHANGED <<auxVars, agent_config, variant, threadVars, is_running, session, openSessions,
                   heartbeat_thread, beatOk, cancelled, stopPc, stopTask>>

\* Where _heartbeat_loop is after the request ended with `resp`: every failure
\* is logged in _send_heartbeat and the loop goes on to its sleep.
AfterClientHeartbeat(resp) == "sleep"

\* The heartbeat request ends.
TaskResponse(t, resp) ==
    /\ variant = "HeartbeatClient"
    /\ hb[t] = "inflight" /\ t \notin cancelled
    /\ hb' = [hb EXCEPT ![t] = AfterClientHeartbeat(resp)]
    /\ beatOk' = (beatOk \/ resp = "200")
    /\ UNCHANGED <<auxVars, agent_config, variant, threadVars, is_running, session, openSessions,
                   heartbeat_thread, reports, cancelled, stopPc, stopTask>>

\* stop() without its `if not self.running: return`.
ClientStopProceeds_NoGuard == TRUE

\* Whether stop() goes past its guard.
ClientStopProceeds == is_running

\* stop() up to `await self.heartbeat_task`; c is who runs it: the caller's
\* `await client.stop()` or the task _signal_handler creates.
ClientStopBegin(c) ==
    /\ variant = "HeartbeatClient"
    /\ stopPc[c] = "idle"
    /\ IF ClientStopProceeds
         THEN /\ is_running' = FALSE
              /\ cancelled' = IF heartbeat_thread # 0 /\ hb[heartbeat_thread] # "done"
                                THEN cancelled \cup {heartbeat_thread}
                                ELSE cancelled
              /\ stopPc' = [stopPc EXCEPT ![c] = "await_task"]
              /\ stopTask' = [stopTask EXCEPT ![c] = heartbeat_thread]
         ELSE UNCHANGED <<is_running, cancelled, stopPc, stopTask>>
    /\ UNCHANGED <<auxVars, agent_config, variant, threadVars, session, openSessions, heartbeat_thread, hb,
                   reports, beatOk>>

\* The session stop() closes after _unregister: the one in self.session then.
ClosedByStop == IF session # 0 THEN {session} ELSE {}

\* stop() going on to _unregister without `await self.heartbeat_task`.
TaskAwaited_NoWait(c) == TRUE

\* `await self.heartbeat_task` in stop() run by c returns: the task has ended.
TaskAwaited(c) == stopTask[c] # 0 => hb[stopTask[c]] = "done"

\* The awaited task has ended: _unregister up to its request, or, when it sends
\* none (no session, or a closed one), on to session.close().
ClientStopUnregister(c) ==
    /\ variant = "HeartbeatClient"
    /\ stopPc[c] = "await_task"
    /\ TaskAwaited(c)
    /\ IF ClientHeartbeatIssues
         THEN /\ reports' = Append(reports, "UNREGISTER")
              /\ stopPc' = [stopPc EXCEPT ![c] = "unregister"]
              /\ UNCHANGED <<openSessions, stopTask>>
         ELSE /\ openSessions' = openSessions \ ClosedByStop
              /\ stopPc' = [stopPc EXCEPT ![c] = "idle"]
              /\ stopTask' = [stopTask EXCEPT ![c] = 0]
              /\ UNCHANGED reports
    /\ UNCHANGED <<auxVars, agent_config, variant, threadVars, is_running, session, heartbeat_thread, hb,
                   beatOk, cancelled>>

\* The unregister request ends, whatever its outcome; the session is closed.
ClientStopClose(c, resp) ==
    /\ variant = "HeartbeatClient"
    /\ stopPc[c] = "unregister"
    /\ openSessions' = openSessions \ ClosedByStop
    /\ stopPc' = [stopPc EXCEPT ![c] = "idle"]
    /\ stopTask' = [stopTask EXCEPT ![c] = 0]
    /\ UNCHANGED <<auxVars, agent_config, variant, threadVars, is_running, session, heartbeat_thread, hb,
                   reports, beatOk, cancelled>>

----------------------------------------------------------------------------
Next ==
    \/ \E r \in LoginResponses : Login(r)
    \/ \E id \in AgentIds, r \in HttpResponses : GetAgent(id, r)
    \/ \E r \in HttpResponses : ListAgents(r)
    \/ \E id \in AgentIds, r \in HttpResponses : Deploy(id, r)
    \/ Start
    \/ \E t \in Threads : HbCheck(t)
    \/ \E t \in Threads, r \in BeatResponses : HbSend(t, r)
    \/ StopBegin
    \/ StopJoin
    \/ \E r \in BeatResponses : StopPost(r)
    \/ StopReturn
    \/ Signal
    \/ ClientStart
    \/ \E t \in Threads : TaskCancelled(t)
    \/ \E t \in Threads : TaskLoop(t)
    \/ \E t \in Threads, r \in ClientResponses : TaskResponse(t, r)
    \/ \E c \in StopCallers : ClientStopBegin(c)
    \/ \E c \in StopCallers : ClientStopUnregister(c)
    \/ \E c \in StopCallers, r \in ClientResponses : ClientStopClose(c, r)

Spec == Init /\ [][Next]_vars

----------------------------------------------------------------------------
\* The heartbeat loops under a clock.  `now` is the time in seconds; a request
\* takes no time, a sleep and a join timeout take exactly their length, and a
\* thread runs as soon as its sleep has ended.  The program calls login,
\* deploy_agent, start and stop at any time.

TimedVariants == {"GOBIAgent", "HeartbeatClient"}

\* Intervals of the timed loops: one that ends within the join timeout of
\* stop, one that does not (as the default does).
Intervals == {JoinTimeout, JoinTimeout + 1}

TimedInit == \E v \in TimedVariants, i \in Intervals : Constructed(v, i)

\* (datetime.now() - self.start_time).total_seconds() if self.start_time else 0
Uptime == IF start_time # <<>> THEN now - start_time[1] ELSE 0

\* The entry of beatLog for a report issued now for loop t.
Beat(status, t) == [status |-> status, run |-> t, at |-> now, uptime |-> Uptime]

\* A loop that sleeps one interval before its first report.
FirstWake_SleepFirst == now + heartbeat_interval

\* The time at which a loop created now first evaluates its condition: the
\* body of the loop sends before it sleeps.
FirstWake == now

\* A loop that sleeps only after a report answered 200, and tries again at
\* once after a failed one.
SleepUntil_RetryOnFailure(resp) ==
    IF resp = "200" THEN now + heartbeat_interval ELSE now

\* The time at which the sleep that follows a report answered `resp` ends:
\* time.sleep(self.heartbeat_interval) whatever send_heartbeat returned.
SleepUntil(resp) == now + heartbeat_interval

\* start up to `self.is_running = True`: the guards, then the flag, which the
\* loop of an earlier thread reads from then on.
TimedStart ==
    /\ variant \in SignalVariants
    /\ mainPc = "idle"
    /\ IF StartResult
         THEN /\ heartbeat_thread < MaxStarts
              /\ is_running' = TRUE
              /\ mainPc' = "start"
         ELSE UNCHANGED <<is_running, mainPc>>
    /\ UNCHANGED <<callVars, moduleVars, heartbeat_interval, wakeAt, joinBy, beatLog,
                   agent_config, clientVars, variant, access_token, is_authenticated, agent_id,
                   start_time, heartbeat_thread, hb, stopCaller, exited, now, reports,
                   histVars>>

\* The rest of start: `self.start_time = datetime.now()`, then the thread is
\* created and started.
TimedStartThread ==
    /\ variant \in SignalVariants
    /\ mainPc = "start"
    /\ start_time' = <<now>>
    /\ heartbeat_thread' = heartbeat_thread + 1
    /\ hb' = [hb EXCEPT ![heartbeat_thread + 1] = "loop"]
    /\ wakeAt' = [wakeAt EXCEPT ![heartbeat_thread + 1] = FirstWake]
    /\ termRun' = FALSE
    /\ stoppedAttempted' = FALSE
    /\ mainPc' = "idle"
    /\ UNCHANGED <<callVars, moduleVars, heartbeat_interval, joinBy, beatLog, agent_config,
                   clientVars, variant, access_token, is_authenticated, agent_id, is_running,
                   stopCaller, exited, now, reports, loginOk, deployOk, beatOk>>

\* One pass of heartbeat_loop by thread t, its sleep over: the loop ends when
\* is_running is False, else send_heartbeat issues its report, answered
\* `resp`, and the thread sleeps.
TimedBeat(t, resp) ==
    /\ variant \in SignalVariants
    /\ hb[t] = "loop" /\ wakeAt[t] <= now
    /\ IF is_running
         THEN /\ IF HeartbeatIssues
                   THEN /\ reports' = Append(reports, "RUNNING")
                        /\ beatLog' = Append(beatLog, Beat("RUNNING", t))
                        /\ beatOk' = (beatOk \/ resp = "200")
                   ELSE UNCHANGED <<reports, beatLog, beatOk>>
              /\ wakeAt' = [wakeAt EXCEPT ![t] = SleepUntil(resp)]
              /\ hb' = hb
         ELSE /\ hb' = [hb EXCEPT ![t] = "done"]
              /\ UNCHANGED <<reports, beatLog, beatOk, wakeAt>>
    /\ UNCHANGED <<callVars, moduleVars, heartbeat_interval, joinBy, agent_config, clientVars,
                   variant, agentVars, mainPc, stopCaller, exited, now, loginOk, deployOk,
                   termRun, stoppedAttempted>>

\* stop up to its join, whose timeout starts now.
TimedStopBegin ==
    /\ variant \in SignalVariants
    /\ mainPc = "idle"
    /\ IF StopProceeds
         THEN /\ is_running' = FALSE
              /\ mainPc' = "join"
              /\ stopCaller' = "api"
              /\ joinBy' = now + JoinTimeout
         ELSE UNCHANGED <<is_running, mainPc, stopCaller, joinBy>>
    /\ UNCHANGED <<callVars, moduleVars, heartbeat_interval, wakeAt, beatLog, agent_config,
                   clientVars, variant, access_token, is_authenticated, agent_id, start_time,
                   heartbeat_thread, hb, exited, now, reports, histVars>>

\* The join of stop returns, timed out only once JoinTimeout has passed.
TimedJoinReturns ==
    heartbeat_thread # 0 =>
        \E timedOut \in BOOLEAN :
            /\ JoinReturns(heartbeat_thread, timedOut)
            /\ timedOut => now >= joinBy

\* The rest of stop: the join returns, the STOPPED report is issued and
\* answered `resp`, the statistics are printed.
TimedStopJoin(resp) ==
    /\ variant \in SignalVariants
    /\ mainPc = "join"
    /\ TimedJoinReturns
    /\ IF StopNotifies
         THEN /\ reports' = Append(reports, "STOPPED")
              /\ beatLog' = Append(beatLog, Beat("STOPPED", heartbeat_thread))
              /\ stoppedAttempted' = TRUE
              /\ beatOk' = (beatOk \/ resp = "200")
         ELSE UNCHANGED <<reports, beatLog, stoppedAttempted, beatOk>>
    /\ mainPc' = "idle"
    /\ stopCaller' = "none"
    /\ UNCHANGED <<callVars, moduleVars, heartbeat_interval, wakeAt, joinBy, agent_config,
                   clientVars, variant, agentVars, hb, exited, now, loginOk, deployOk, termRun>>

\* HeartbeatClient.start(): the task is created and runs at once.
TimedClientStart ==
    /\ variant = "HeartbeatClient"
    /\ IF ClientStartProceeds
         THEN /\ heartbeat_thread < MaxStarts
              /\ is_running' = TRUE
              /\ session' = heartbeat_thread + 1
              /\ openSessions' = openSessions \cup {heartbeat_thread + 1}
              /\ heartbeat_thread' = heartbeat_thread + 1
              /\ hb' = [hb EXCEPT ![heartbeat_thread + 1] = "loop"]
              /\ wakeAt' = [wakeAt EXCEPT ![heartbeat_thread + 1] = FirstWake]
         ELSE UNCHANGED <<is_running, session, openSessions, heartbeat_thread, hb, wakeAt>>
    /\ UNCHANGED <<callVars, moduleVars, heartbeat_interval, joinBy, beatLog, agent_config,
                   variant, threadVars, reports, beatOk, cancelled, stopPc, stopTask>>

\* One pass of _heartbeat_loop by task t, its sleep over: _send_heartbeat
\* issues its request, answered `resp`, and the task sleeps
\* (asyncio.sleep(self.heartbeat_interval) on both paths of the loop).
TimedClientBeat(t, resp) ==
    /\ variant = "HeartbeatClient"
    /\ hb[t] = "loop" /\ wakeAt[t] <= now
    /\ IF is_running
         THEN /\ IF ClientHeartbeatIssues
                   THEN /\ reports' = Append(reports, "HEARTBEAT")
                        /\ beatLog' = Append(beatLog, Beat("HEARTBEAT", t))
                        /\ beatOk' = (beatOk \/ resp = "200")
                   ELSE UNCHANGED <<reports, beatLog, beatOk>>
              /\ wakeAt' = [wakeAt EXCEPT ![t] = SleepUntil(resp)]
              /\ hb' = hb
         ELSE /\ hb' = [hb EXCEPT ![t] = "done"]
              /\ UNCHANGED <<reports, beatLog, beatOk, wakeAt>>
    /\ UNCHANGED <<callVars, moduleVars, heartbeat_interval, joinBy, agent_config, variant,
                   threadVars, is_running, session, openSessions, heartbeat_thread, cancelled,
                   stopPc, stopTask>>

\* HeartbeatClient.stop(), its requests taking no time: the task is cancelled
\* in its sleep and ends, the unregister request is issued and the session
\* closed.
TimedClientStop(resp) ==
    /\ variant = "HeartbeatClient"
    /\ IF ClientStopProceeds
         THEN /\ is_running' = FALSE
              /\ hb' = [t \in Threads |->
                          IF t = heartbeat_thread /\ hb[t] = "loop" THEN "done" ELSE hb[t]]
              /\ IF ClientHeartbeatIssues
                   THEN /\ reports' = Append(reports, "UNREGISTER")
                        /\ beatLog' = Append(beatLog, Beat("UNREGISTER", heartbeat_thread))
                   ELSE UNCHANGED <<reports, beatLog>>
              /\ openSessions' = openSessions \ ClosedByStop
         ELSE UNCHANGED <<is_running, hb, reports, beatLog, openSessions>>
    /\ UNCHANGED <<callVars, moduleVars, heartbeat_interval, wakeAt, joinBy, agent_config,
                   variant, threadVars, session, heartbeat_thread, beatOk, cancelled, stopPc,
                   stopTask>>

\* A second passes: no loop has its sleep over, a join in progress can not
\* return yet, and no start() is between its two assignments.
Advance ==
    /\ now < MaxTime
    /\ mainPc # "start"
    /\ \A t \in Threads : hb[t] = "loop" => wakeAt[t] > now
    /\ mainPc = "join" => ~TimedJoinReturns
    /\ now' = now + 1
    /\ UNCHANGED <<auxVars, agent_config, clientVars, variant, agentVars, hb, mainPc,
                   stopCaller, exited, reports, histVars>>

TimedNext ==
    \/ \E r \in LoginResponses : Login(r)
    \/ \E r \in HttpResponses : Deploy("a1", r)
    \/ TimedStart
    \/ TimedStartThread
    \/ \E t \in Threads, r \in BeatResponses : TimedBeat(t, r)
    \/ TimedStopBegin
    \/ \E r \in BeatResponses : TimedStopJoin(r)
    \/ TimedClientStart
    \/ \E t \in Threads, r \in ClientResponses : TimedClientBeat(t, r)
    \/ \E r \in ClientResponses : TimedClientStop(r)
    \/ Advance

TimedSpec == TimedInit /\ [][TimedNext]_vars

----------------------------------------------------------------------------
\* The call counters of GOBILiveKitAgent.  entrypoint and on_disconnect run on
\* the event loop of the LiveKit worker and write the counters; the heartbeat
\* thread reads them, one attribute at a time, while it builds the metrics of
\* a report.

\* main() constructs the agent with the agent_id of its command line.
CallInit ==
    /\ Constructed("GOBILiveKitAgent", DefaultInterval)
    /\ agent_id # "None"

\* main(): gobi_agent.agent_config = config, the non-empty answer of
\* get_agent_config.
LoadConfig ==
    /\ variant = "GOBILiveKitAgent"
    /\ ~exited /\ mainPc = "idle"
    /\ agent_config' = "full"
    /\ UNCHANGED <<auxVars, clientVars, variant, agentVars, hb, mainPc, stopCaller, exited,
                   now, reports, histVars>>

\* entrypoint goes past `if not gobi_agent or not gobi_agent.agent_config`.
EntrypointAccepted == agent_config # "empty"

\* entrypoint for one room: the call is counted, then the room is connected
\* and on_disconnect registered, unless ctx.connect raises.
Entrypoint(connected) ==
    /\ variant = "GOBILiveKitAgent"
    /\ ~exited
    /\ IF EntrypointAccepted
         THEN /\ total_calls < MaxCalls
              /\ total_calls' = total_calls + 1
              /\ rooms' = IF connected THEN rooms + 1 ELSE rooms
         ELSE UNCHANGED <<total_calls, rooms>>
    /\ UNCHANGED <<successful_calls, metrics, timeVars, moduleVars, agent_config, clientVars,
                   variant, agentVars, hb, mainPc, stopCaller, exited, now, reports,
                   histVars>>

\* on_disconnect of a connected room.
OnDisconnect ==
    /\ variant = "GOBILiveKitAgent"
    /\ ~exited
    /\ rooms > 0
    /\ successful_calls' = successful_calls + 1
    /\ rooms' = rooms - 1
    /\ UNCHANGED <<total_calls, metrics, timeVars, moduleVars, agent_config, clientVars,
                   variant, agentVars, hb, mainPc, stopCaller, exited, now, reports,
                   histVars>>

\* The attribute the metrics expression reads after `reads` reads:
\* total_calls, successful_calls, then for success_rate total_calls (the
\* condition), successful_calls and total_calls (the division).
NextRead(reads) ==
    IF Len(reads) \in {0, 2, 4} THEN total_calls ELSE successful_calls

\* All the reads of the metrics expression are done: the division is not
\* evaluated when the condition total_calls > 0 is false.
ReadsDone(reads) ==
    \/ Len(reads) = 5
    \/ Len(reads) = 3 /\ reads[3] = 0

\* success_rate without its `* 100`.
SuccessRate_Fraction(cond, successful, total) ==
    IF cond > 0 THEN <<successful, total>> ELSE <<0, 1>>

\* (successful_calls / total_calls * 100) if total_calls > 0 else 0, as the
\* fraction <<numerator, denominator>>.
SuccessRate(cond, successful, total) ==
    IF cond > 0 THEN <<successful * 100, total>> ELSE <<0, 1>>

\* The metrics dict with success_rate dividing by the total_calls value the
\* dict already holds, instead of reading the attribute again.
Metrics_EarlyTotal(reads) ==
    [total_calls      |-> reads[1],
     successful_calls |-> reads[2],
     success_rate     |-> IF reads[3] > 0
                            THEN SuccessRate(reads[3], reads[4], reads[1])
                            ELSE SuccessRate(reads[3], 0, 0)]

\* The metrics dict built from the values read.
Metrics(reads) ==
    [total_calls      |-> reads[1],
     successful_calls |-> reads[2],
     success_rate     |-> IF reads[3] > 0
                            THEN SuccessRate(reads[3], reads[4], reads[5])
                            ELSE SuccessRate(reads[3], 0, 0)]

\* send_heartbeat of thread t reads one more attribute for its metrics.  The
\* threads only read the counters, so the metrics one thread builds do not
\* depend on the reads of another: one thread builds its metrics at a time.
MetricsRead(t) ==
    /\ variant = "GOBILiveKitAgent"
    /\ ~exited /\ hb[t] = "send"
    /\ HeartbeatIssues
    /\ ~ReadsDone(metrics[t])
    /\ \A u \in Threads \ {t} : metrics[u] = <<>>
    /\ metrics' = [metrics EXCEPT ![t] = Append(@, NextRead(@))]
    /\ UNCHANGED <<total_calls, successful_calls, rooms, timeVars, moduleVars, agent_config,
                   clientVars, variant, agentVars, hb, mainPc, stopCaller, exited, now,
                   reports, histVars>>

\* send_heartbeat resetting the counters once they are reported.
CountersAfterReport_Reset == <<0, 0>>

\* The counters after send_heartbeat: it reads them and writes neither.
CountersAfterReport == <<total_calls, successful_calls>>

\* send_heartbeat of thread t posts its RUNNING report with the metrics
\* built, answered `resp`; without an agent_id it returns at once.
MetricsSend(t, resp) ==
    /\ variant = "GOBILiveKitAgent"
    /\ ~exited /\ hb[t] = "send"
    /\ IF HeartbeatIssues
         THEN /\ ReadsDone(metrics[t])
              /\ reports' = Append(reports, "RUNNING")
              /\ beatOk' = (beatOk \/ resp = "200")
         ELSE UNCHANGED <<reports, beatOk>>
    /\ metrics' = [metrics EXCEPT ![t] = <<>>]
    /\ total_calls' = CountersAfterReport[1]
    /\ successful_calls' = CountersAfterReport[2]
    /\ hb' = [hb EXCEPT ![t] = AfterHeartbeat(resp)]
    /\ UNCHANGED <<rooms, timeVars, moduleVars, agent_config, clientVars, variant, agentVars,
                   mainPc, stopCaller, exited, now, loginOk, deployOk, termRun,
                   stoppedAttempted>>

\* start_heartbeat, the clock not read again: the run starts now.
CallStart ==
    /\ variant = "GOBILiveKitAgent"
    /\ ~exited /\ mainPc = "idle"
    /\ heartbeat_thread < MaxStarts
    /\ is_running' = TRUE
    /\ start_time' = <<now>>
    /\ heartbeat_thread' = heartbeat_thread + 1
    /\ hb' = [hb EXCEPT ![heartbeat_thread + 1] = "loop"]
    /\ UNCHANGED <<auxVars, agent_config, clientVars, variant, access_token, is_authenticated,
                   agent_id, mainPc, stopCaller, exited, now, reports, histVars>>

\* stop_heartbeat from its call to its return: is_running is cleared, the
\* join returns (thread ended, or timeout), the STOPPED report is posted and
\* answered `resp`.
CallStop(resp) ==
    /\ variant = "GOBILiveKitAgent"
    /\ ~exited /\ mainPc = "idle"
    /\ NumOf("STOPPED") < MaxStarts
    /\ heartbeat_thread # 0 =>
          \E timedOut \in BOOLEAN : JoinReturns(heartbeat_thread, timedOut)
    /\ is_running' = FALSE
    /\ reports' = Append(reports, "STOPPED")
    /\ stoppedAttempted' = TRUE
    /\ beatOk' = (beatOk \/ resp = "200")
    /\ UNCHANGED <<auxVars, agent_config, clientVars, variant, access_token, is_authenticated,
                   agent_id, start_time, heartbeat_thread, hb, mainPc, stopCaller, exited, now,
                   loginOk, deployOk, termRun>>

CallNext ==
    \/ \E r \in LoginResponses : Login(r)
    \/ LoadConfig
    \/ \E r \in DeployResponses : Deploy("a1", r)
    \/ CallStart
    \/ \E t \in Threads : HbCheck(t)
    \/ \E t \in Threads : MetricsRead(t)
    \/ \E t \in Threads, r \in BeatResponses : MetricsSend(t, r)
    \/ \E r \in BeatResponses : CallStop(r)
    \/ \E connected \in BOOLEAN : Entrypoint(connected)
    \/ OnDisconnect

CallSpec == CallInit /\ [][CallNext]_vars

----------------------------------------------------------------------------
\* The module-level API of heartbeat_client.py: init_heartbeat,
\* start_heartbeat and stop_heartbeat work on the module's _heartbeat_client.
\* The entrypoint of the agent scripts, invoked once per job on the event loop
\* of the worker, calls init_heartbeat and start_heartbeat when it begins and
\* stop_heartbeat in its finally block.  Invocation e creates client e.

ModuleInit == Constructed("HeartbeatClient", DefaultInterval)

\* entrypoint e up to its first await that suspends: init_heartbeat replaces
\* _heartbeat_client by a new client, and start_heartbeat starts the client
\* the global holds (start() has no await).
EntryStart(e) ==
    /\ variant = "HeartbeatClient"
    /\ entryPc[e].pc = "idle"
    /\ heartbeat_client' = e
    /\ clients' = [clients EXCEPT ![e] = "running"]
    /\ entryPc' = [entryPc EXCEPT ![e] = [pc |-> "serving", client |-> 0]]
    /\ UNCHANGED <<callVars, timeVars, agent_config, clientVars, variant, agentVars, hb,
                   mainPc, stopCaller, exited, now, reports, histVars>>

\* The client stop_heartbeat stops: the one _heartbeat_client holds when it
\* is called, if it is running (stop() returns at once otherwise).
StoppedByModule ==
    IF heartbeat_client # 0 /\ clients[heartbeat_client] = "running"
      THEN heartbeat_client
      ELSE 0

\* The finally block of entrypoint e: stop_heartbeat up to the first await of
\* the stop() it calls (running is cleared, the task cancelled).
EntryStopBegin(e) ==
    /\ variant = "HeartbeatClient"
    /\ entryPc[e].pc = "serving"
    /\ IF StoppedByModule # 0
         THEN /\ clients' = [clients EXCEPT ![StoppedByModule] = "stopping"]
              /\ entryPc' = [entryPc EXCEPT ![e] =
                                [pc |-> "stopping", client |-> StoppedByModule]]
         ELSE /\ entryPc' = [entryPc EXCEPT ![e] = [pc |-> "done", client |-> 0]]
              /\ UNCHANGED clients
    /\ UNCHANGED <<callVars, timeVars, heartbeat_client, agent_config, clientVars, variant,
                   agentVars, hb, mainPc, stopCaller, exited, now, reports, histVars>>

\* The stop() that entrypoint e awaits goes on: the unregister request is
\* sent, answered `resp`, and the session closed; the entrypoint returns.
EntryStopEnd(e, resp) ==
    /\ variant = "HeartbeatClient"
    /\ entryPc[e].pc = "stopping"
    /\ clients' = [clients EXCEPT ![entryPc[e].client] = "unregistered"]
    /\ entryPc' = [entryPc EXCEPT ![e] = [pc |-> "done", client |-> 0]]
    /\ UNCHANGED <<callVars, timeVars, heartbeat_client, agent_config, clientVars, variant,
                   agentVars, hb, mainPc, stopCaller, exited, now, reports, histVars>>

ModuleNext ==
    \/ \E e \in Entrypoints : EntryStart(e)
    \/ \E e \in Entrypoints : EntryStopBegin(e)
    \/ \E e \in Entrypoints, r \in ClientResponses : EntryStopEnd(e, r)

ModuleSpec == ModuleInit /\ [][ModuleNext]_vars

-----------------------------------------------------------------------------
\* GOBIAgent under fair scheduling.
\*
\* The steps are those of Spec for a GOBIAgent.  A heartbeat thread that can
\* evaluate its loop condition does so in the end (its sleep is finite and the
\* thread is scheduled), and a request it has issued is answered in the end.
\* A login answered 200 carries its accessToken here.

LiveInit == Constructed("GOBIAgent", DefaultInterval)

LiveNext ==
    \/ \E r \in {"200", "401", "exception"} : Login(r)
    \/ \E r \in HttpResponses : Deploy("a1", r)
    \/ Start
    \/ \E t \in Threads : HbCheck(t)
    \/ \E t \in Threads, r \in BeatResponses : HbSend(t, r)
    \/ StopBegin
    \/ StopJoin
    \/ \E r \in BeatResponses : StopPost(r)
    \/ StopReturn
    \/ Signal

LiveFairness ==
    \A t \in Threads :
        /\ WF_vars(HbCheck(t))
        /\ WF_vars(\E r \in BeatResponses : HbSend(t, r))

LiveSpec == LiveInit /\ [][LiveNext]_vars /\ LiveFairness

----------------------------------------------------------------------------
\* Steps and states the claims speak about.

\* This step issues a report with the given status.
Issued(status) ==
    /\ Len(reports') = Len(reports) + 1
    /\ reports'[Len(reports')] = status

\* A stop sequence is in progress in the main thread.
Stopping == mainPc \in {"join", "post", "stats"}

\* The heartbeat threads that are inside heartbeat_loop.
Alive == {t \in Threads : hb[t] \in {"loop", "send"}}

----------------------------------------------------------------------------
\* C1: GOBIAgent / GOBILocalAgent: in every interleaving of the heartbeat
\* thread with stop(), join timeout included, no RUNNING report is issued once
\* the STOPPED report of the same run has been issued.
C1_NoRunningAfterStopped ==
    [][(variant \in SignalVariants /\ Issued("RUNNING")) => ~stoppedAttempted]_vars

C3_StopTwice ==
    /\ [][(variant \in SignalVariants /\ StopBegin /\ ~is_running)
            => UNCHANGED vars]_vars
    /\ [][(variant \in SignalVariants /\ Issued("STOPPED")) => ~stoppedAttempted]_vars
    /\ []((/\ variant \in SignalVariants /\ ~exited /\ mainPc = "idle"
           /\ heartbeat_thread # 0 /\ ~is_running /\ ~termRun)
            => stoppedAttempted)

C3_Witness ==
    /\ variant \in SignalVariants /\ ~exited /\ mainPc = "idle"
    /\ heartbeat_thread # 0 /\ ~is_running /\ ~termRun
    /\ stoppedAttempted /\ NumOf("STOPPED") = 1

\* C4: thread variants: when stop returns (the process going on), the heartbeat
\* thread it joined has left its loop.
C4_StopReturnsAfterThreadLeft ==
    [][(/\ variant \in ThreadVariants /\ heartbeat_thread # 0
        /\ mainPc = "stats" /\ mainPc' = "idle" /\ ~exited')
          => hb[heartbeat_thread] = "done"]_vars

\* C5: GOBIAgent: while is_running is False (stop has cleared it) the
\* heartbeat thread issues no RUNNING report.
C5_NoNewRunningOnceCleared ==
    [][(variant = "GOBIAgent" /\ Issued("RUNNING")) => is_running]_vars

\* C6: GOBIAgent / GOBILocalAgent: when a signal has found the agent running
\* (its handler started the stop sequence) and the process has exited, however
\* many signals followed, the STOPPED request of that run was attempted.
C6_StoppedAttemptedBeforeExit ==
    (variant \in SignalVariants /\ exited /\ stopCaller = "signal") => stoppedAttempted

\* C7: GOBIAgent / GOBILocalAgent: a signal delivered while the stop sequence
\* a first signal started is in progress is a no-op: the sequence stays where
\* it is, the process does not exit and no report is issued or dropped.
C7_SecondSignalNoOp ==
    [][(variant \in SignalVariants /\ Stopping /\ stopCaller = "signal" /\ Signal)
          => UNCHANGED <<mainPc, stopCaller, exited, reports, stoppedAttempted, hb>>]_vars

\* C8: whatever the heartbeat requests are answered (every one may fail or
\* raise), a loop that finds the agent running issues its report, the request
\* ending leaves the loop at its sleep and is_running as it was; no thread or
\* task ends because of a response.
C8_LoopSurvivesFailures ==
    [][\A t \in Threads :
         /\ (/\ variant \in ThreadVariants /\ ~exited' /\ hb[t] = "loop"
             /\ hb'[t] # "loop" /\ is_running)
               => hb'[t] = "send"
         /\ (variant \in ThreadVariants /\ ~exited' /\ hb[t] = "send" /\ hb'[t] # "send")
               => /\ hb'[t] = "loop"
                  /\ is_running' = is_running
                  /\ HeartbeatIssues => Issued("RUNNING")
         /\ (/\ variant = "HeartbeatClient" /\ t \notin cancelled
             /\ hb[t] \in {"new", "sleep"} /\ hb'[t] # hb[t] /\ is_running
             /\ ClientHeartbeatIssues)
               => (hb'[t] = "inflight" /\ Issued("HEARTBEAT"))
         /\ (/\ variant = "HeartbeatClient" /\ t \notin cancelled
             /\ hb[t] = "inflight" /\ hb'[t] # "inflight")
               => (hb'[t] = "sleep" /\ is_running' = is_running)
      ]_vars

\* Two reports issued by the only thread, none answered 200, the agent
\* still running.
C8_Witness ==
    /\ variant = "GOBIAgent" /\ is_running /\ ~beatOk
    /\ heartbeat_thread = 1 /\ NumOf("RUNNING") >= 2 /\ hb[1] = "loop"

\* C9: start on a running agent (GOBIAgent, GOBILocalAgent: returns False;
\* HeartbeatClient: returns) changes nothing: is_running, start_time, the
\* session and the heartbeat thread or task stay, no loop is spawned.
C9_ReentrantStartRejected ==
    /\ []((variant \in SignalVariants /\ is_running) => ~StartResult)
    /\ []((variant = "HeartbeatClient" /\ is_running) => ~ClientStartProceeds)
    /\ [][(variant \in SignalVariants /\ is_running /\ Start) => UNCHANGED vars]_vars
    /\ [][(variant = "HeartbeatClient" /\ is_running /\ ClientStart)
            => UNCHANGED vars]_vars

\* A running agent on which a second start would show: a later clock reading
\* and one more thread are within the bounds.
C9_Witness ==
    /\ variant \in SignalVariants /\ ~exited /\ mainPc = "idle" /\ is_running
    /\ start_time = <<0>> /\ now < MaxNow /\ heartbeat_thread = 1 /\ hb[1] # "done"

\* C10: deploy_agent answered 404 gives its caller an outcome different from
\* the one it gives when answered 500.
C10_NotFoundDistinct ==
    (\/ variant = "GOBIAgent" /\ is_authenticated
     \/ variant = "GOBILiveKitAgent" /\ loginOk)
      => \A id \in AgentIds : DeployOutcome(id, "404") # DeployOutcome(id, "500")

\* C11: HeartbeatClient: a stop() called while running is False returns at its
\* guard and changes nothing; the unregister requests never outnumber the
\* running periods; the request ending, whatever its outcome, is followed by
\* no other request of that stop(); and once the stop calls of the first
\* running period have all returned, one unregister request has been sent.
C11_OneUnregister ==
    /\ [][(variant = "HeartbeatClient" /\ ~is_running
            /\ \E c \in StopCallers : ClientStopBegin(c)) => UNCHANGED vars]_vars
    /\ [](variant = "HeartbeatClient" => NumOf("UNREGISTER") <= heartbeat_thread)
    /\ [][\A c \in StopCallers :
            (variant = "HeartbeatClient" /\ stopPc[c] = "unregister"
             /\ stopPc'[c] # "unregister")
              => (stopPc'[c] = "idle" /\ reports' = reports)]_vars
    /\ []((/\ variant = "HeartbeatClient" /\ heartbeat_thread = 1 /\ ~is_running
           /\ \A c \in StopCallers : stopPc[c] = "idle")
            => NumOf("UNREGISTER") = 1)

\* The handler's stop() has sent the unregister request of the first period and
\* waits for its answer; the caller's stop() is still to come.
C11_Witness ==
    /\ variant = "HeartbeatClient" /\ heartbeat_thread = 1 /\ ~is_running
    /\ stopPc["handler"] = "unregister" /\ stopPc["caller"] = "idle"
    /\ NumOf("UNREGISTER") = 1

\* C12: HeartbeatClient: stop() issues its unregister request only when the
\* heartbeat task it cancelled has ended, an ended task issues nothing more,
\* and in the first start/stop cycle no heartbeat request follows the
\* unregister request.
C12_UnregisterAfterTask ==
    /\ [][\A c \in StopCallers :
            (variant = "HeartbeatClient" /\ stopPc[c] = "await_task"
             /\ stopPc'[c] = "unregister")
              => (stopTask[c] # 0 /\ hb[stopTask[c]] = "done")]_vars
    /\ [][\A t \in Threads :
            (variant = "HeartbeatClient" /\ hb[t] = "done") => hb'[t] = "done"]_vars
    /\ [][(variant = "HeartbeatClient" /\ heartbeat_thread = 1 /\ Issued("HEARTBEAT"))
            => NumOf("UNREGISTER") = 0]_vars

\* The task was cancelled with a heartbeat request in flight, and the
\* unregister request followed it.
C12_Witness ==
    /\ variant = "HeartbeatClient" /\ heartbeat_thread = 1
    /\ reports = <<"HEARTBEAT", "UNREGISTER">> /\ ~beatOk
    /\ hb[1] = "done" /\ stopPc["caller"] = "unregister"

\* C13: GOBILiveKitAgent: the STOPPED report of a run is issued once: a
\* stop_heartbeat called after the one that ended the run issues no other.
C13_OneStoppedPerShutdown ==
    [][(/\ variant = "GOBILiveKitAgent" /\ loginOk /\ deployOk
        /\ heartbeat_thread # 0 /\ Issued("STOPPED"))
          => ~stoppedAttempted]_vars

\* C14: GOBILocalAgent / GOBILiveKitAgent: is_running is True only after a
\* login that returned True and a deploy_agent that returned True.
C14_RunningOnlyAfterLoginAndDeploy ==
    (variant \in {"GOBILocalAgent", "GOBILiveKitAgent"} /\ is_running)
      => (loginOk /\ deployOk)

\* C15: GOBIAgent: while is_authenticated is False, get_agent, list_agents,
\* deploy_agent and send_heartbeat issue no request and return their failure
\* value, the agent is not running and has never been started, and no step
\* issues a RUNNING or STOPPED report.
C15_NoRequestUnauthenticated ==
    /\ []((variant = "GOBIAgent" /\ ~is_authenticated) =>
            /\ ~GetAgentIssues /\ ~ListAgentsIssues /\ ~DeployIssues /\ ~HeartbeatIssues
            /\ \A r \in HttpResponses :
                 /\ GetAgentResult(r) = "None" /\ ListAgentsResult(r) = "None"
                 /\ \A id \in AgentIds : ~DeployOutcome(id, r).ret
            /\ ~is_running /\ heartbeat_thread = 0 /\ agent_id = "None"
            /\ reports = <<>>)
    /\ [][(variant = "GOBIAgent" /\ ~is_authenticated) => reports' = reports]_vars

\* An agent that never logged in has been stopped by its signal handler: the
\* process has exited and no report was issued.
C15_Witness ==
    /\ variant = "GOBIAgent" /\ ~is_authenticated /\ ~loginOk
    /\ exited /\ reports = <<>>

\* C16: GOBIAgent: a login answered with a status other than 200, or raising,
\* returns False and leaves is_authenticated, access_token and the
\* Authorization header as they were; with no successful login so far the
\* agent is unauthenticated, without token and without header.
C16_FailedLoginChangesNothing ==
    /\ [][\A r \in {"401", "exception"} :
            (variant = "GOBIAgent" /\ Login(r))
              => /\ ~LoginResult(r)
                 /\ UNCHANGED <<is_authenticated, access_token>>
                 /\ Authorization' = Authorization]_vars
    /\ []((variant = "GOBIAgent" /\ ~loginOk)
            => (~is_authenticated /\ access_token = "None" /\ Authorization = <<>>))

\* A logged-in agent on which a failed login would show: it holds a token.
C16_Witness ==
    /\ variant = "GOBIAgent" /\ ~exited /\ mainPc = "idle"
    /\ is_authenticated /\ access_token = "tok" /\ Authorization = <<"tok">>

\* C17: GOBIAgent: a deploy_agent answered with a status other than 200, or
\* raising, returns False and changes nothing: agent_id, is_authenticated,
\* is_running, the heartbeat thread and its position stay, running or not.
C17_FailedDeployChangesNothing ==
    [][\A id \in AgentIds, r \in {"404", "500", "exception"} :
         (variant = "GOBIAgent" /\ Deploy(id, r))
           => /\ ~DeployOutcome(id, r).ret
              /\ UNCHANGED <<agent_id, is_authenticated, is_running, start_time,
                             heartbeat_thread, hb, reports, deployOk>>]_vars

\* A running agent deployed as a1, its thread alive: a failed deploy of another
\* identifier would show.
C17_Witness ==
    /\ variant = "GOBIAgent" /\ ~exited /\ mainPc = "idle" /\ is_authenticated
    /\ is_running /\ agent_id = "a1" /\ heartbeat_thread = 1 /\ hb[1] = "send"

\* C18: GOBIAgent / GOBILiveKitAgent: once a deploy_agent has succeeded,
\* agent_id never changes.
C18_AgentIdSetOnce ==
    [][(variant \in {"GOBIAgent", "GOBILiveKitAgent"} /\ deployOk /\ agent_id # "None")
          => agent_id' = agent_id]_vars

\* C19: GOBIAgent: whatever the STOPPED request is answered, stop goes on to
\* its statistics with is_running False, and from there returns to its caller;
\* HeartbeatClient: whatever the unregister request is answered, it leaves
\* running as it was and stop closes the session and returns.
C19_StopCompletes ==
    /\ [][\A r \in BeatResponses :
            (variant = "GOBIAgent" /\ StopPost(r))
              => (mainPc' = "stats" /\ ~is_running' /\ ~exited')]_vars
    /\ []((variant = "GOBIAgent" /\ Stopping) => ~is_running)
    /\ []((variant = "GOBIAgent" /\ mainPc = "stats" /\ ~exited) => ENABLED StopReturn)
    /\ [][\A c \in StopCallers, r \in ClientResponses :
            (variant = "HeartbeatClient" /\ ClientStopClose(c, r))
              => /\ stopPc'[c] = "idle"
                 /\ is_running' = is_running
                 /\ session \notin openSessions']_vars

\* stop has returned to its caller after a STOPPED request that was not
\* answered 200 (no request of this agent has been).
C19_Witness ==
    /\ variant = "GOBIAgent" /\ ~exited /\ mainPc = "idle" /\ stopCaller = "none"
    /\ ~is_running /\ NumOf("STOPPED") = 1 /\ ~beatOk /\ ~termRun

C24_AtMostOneLoop ==
    (variant \in {"GOBIAgent", "GOBILiveKitAgent"} /\ ~exited) => Cardinality(Alive) <= 1

\* C25: HeartbeatClient: while running is True and no stop() is in progress,
\* self.session is open.
C25_SessionOpenWhileRunning ==
    (/\ variant = "HeartbeatClient" /\ is_running
     /\ \A c \in StopCallers : stopPc[c] = "idle")
      => (session # 0 /\ session \in openSessions)

\* C27: GOBIAgent / GOBILocalAgent: stop never waits for the heartbeat thread:
\* at its join it can go on whatever the thread does; it then goes to the
\* STOPPED request, which it issues when the agent has an agent_id, then to
\* its statistics, and returns.
C27_StopNeverWaits ==
    /\ []((variant \in SignalVariants /\ ~exited /\ mainPc = "join") => ENABLED StopJoin)
    /\ [][(variant \in SignalVariants /\ StopJoin) => mainPc' = "post"]_vars
    /\ []((variant \in SignalVariants /\ ~exited /\ mainPc = "post")
            => ENABLED (\E r \in BeatResponses : StopPost(r)))
    /\ [][\A r \in BeatResponses :
            (variant \in SignalVariants /\ StopPost(r))
              => (mainPc' = "stats" /\ (StopNotifies => Issued("STOPPED")))]_vars
    /\ []((variant \in SignalVariants /\ ~exited /\ mainPc = "stats") => ENABLED StopReturn)
    /\ [][(variant \in SignalVariants /\ StopReturn) => mainPc' = "idle"]_vars

\* stop has sent STOPPED and returned while the heartbeat thread it joined is
\* still in its loop, about to send.
C27_Witness ==
    /\ variant = "GOBIAgent" /\ ~exited /\ mainPc = "idle" /\ stopCaller = "none"
    /\ ~is_running /\ heartbeat_thread = 1 /\ hb[1] = "send"
    /\ stoppedAttempted /\ NumOf("STOPPED") = 1

\* C28: HeartbeatClient: a heartbeat request in flight ends with its answer
\* (the loop then sleeps), whatever stop() does: it is never aborted.
C28_InFlightNotAborted ==
    [][\A t \in Threads :
         (variant = "HeartbeatClient" /\ hb[t] = "inflight" /\ hb'[t] # "inflight")
           => hb'[t] = "sleep"]_vars

\* The RUNNING reports of beatLog issued in the run that started at start_time.
RunReports ==
    {i \in DOMAIN beatLog :
        /\ beatLog[i].status = "RUNNING"
        /\ beatLog[i].at - beatLog[i].uptime = start_time[1]}

\* A first run, never stopped, is three and a half intervals old.
ThreeAndAHalfIntervals ==
    /\ variant \in SignalVariants /\ heartbeat_thread = 1 /\ is_running
    /\ mainPc = "idle"
    /\ start_time # <<>>
    /\ 2 * (now - start_time[1]) = 7 * heartbeat_interval

\* C22: GOBIAgent: three and a half intervals after start, requests taking
\* no time, exactly 4 RUNNING reports have been issued, the first right at
\* start: their uptimes are 0, 1, 2 and 3 intervals.
C22_FourReportsAfterThreeAndAHalf ==
    ThreeAndAHalfIntervals =>
        /\ Len(beatLog) = 4
        /\ \A i \in 1..4 :
             /\ beatLog[i].status = "RUNNING"
             /\ beatLog[i].uptime = (i - 1) * heartbeat_interval

C22_Witness ==
    /\ ThreeAndAHalfIntervals /\ variant = "GOBIAgent"
    /\ Len(beatLog) = 4 /\ beatLog[4].uptime = 3 * heartbeat_interval

\* C22 as stated: three and a half intervals after start exactly 3 RUNNING
\* reports have been issued, with uptimes 1, 2 and 3 intervals.
C22_ThreeReportsAfterThreeAndAHalf ==
    ThreeAndAHalfIntervals =>
        /\ Len(beatLog) = 3
        /\ \A i \in DOMAIN beatLog :
             /\ beatLog[i].status = "RUNNING"
             /\ beatLog[i].uptime = i * heartbeat_interval

\* C23: GOBIAgent: while a run that started T seconds ago goes on, the number
\* of RUNNING reports issued in it is within T \div I - 1 .. T \div I + 1, I
\* the interval (here for an interval longer than the join timeout of stop).
C23_ReportsPerRun ==
    (/\ variant \in SignalVariants /\ is_running /\ start_time # <<>>
     /\ mainPc = "idle"
     /\ heartbeat_interval > JoinTimeout) =>
        LET n == Cardinality(RunReports)
            k == (now - start_time[1]) \div heartbeat_interval
        IN  k - 1 <= n /\ n <= k + 1

\* C29: two reports of one heartbeat loop are at least one interval apart,
\* whatever the answer to the first was.
C29_OneIntervalBetweenReports ==
    \A i, j \in DOMAIN beatLog :
        (/\ i < j
         /\ beatLog[i].run = beatLog[j].run
         /\ beatLog[i].status \in {"RUNNING", "HEARTBEAT"}
         /\ beatLog[j].status \in {"RUNNING", "HEARTBEAT"})
          => beatLog[j].at - beatLog[i].at >= heartbeat_interval

\* A loop has issued two reports, one interval apart, and none was answered 200.
C29_Witness ==
    /\ ~beatOk /\ Len(beatLog) = 2
    /\ beatLog[1].run = beatLog[2].run
    /\ beatLog[1].status = "RUNNING" /\ beatLog[2].status = "RUNNING"
    /\ beatLog[2].at = beatLog[1].at + heartbeat_interval

\* Thread t has read everything its metrics need, and no call was counted
\* since it began: the values it read are the counters.
BuiltAfterwards(t) ==
    /\ variant = "GOBILiveKitAgent" /\ hb[t] = "send"
    /\ ReadsDone(metrics[t])
    /\ metrics[t][1] = total_calls /\ metrics[t][2] = successful_calls

\* C21: GOBILiveKitAgent: the metrics built after N increments of total_calls
\* and K of successful_calls, in whatever order they came, carry N, K and
\* success_rate = K / N * 100, and success_rate = 0 when N = 0.
C21_SuccessRate ==
    \A t \in Threads :
        BuiltAfterwards(t) =>
            LET m == Metrics(metrics[t])
            IN  /\ m.total_calls = total_calls
                /\ m.successful_calls = successful_calls
                /\ m.success_rate[2] > 0
                /\ IF total_calls = 0
                     THEN m.success_rate[1] = 0
                     ELSE m.success_rate[1] * total_calls
                            = successful_calls * 100 * m.success_rate[2]

\* Metrics built after two calls, one of them completed: success_rate is 50.
C21_Witness ==
    /\ BuiltAfterwards(1) /\ total_calls = 2 /\ successful_calls = 1
    /\ Metrics(metrics[1]).success_rate = <<100, 2>>

\* C30: GOBILiveKitAgent: only entrypoint and on_disconnect change
\* total_calls and successful_calls, and no step decreases either (login,
\* deploy_agent, send_heartbeat, heartbeat_loop, start_heartbeat and
\* stop_heartbeat leave them as they are).
C30_CountersReadOnly ==
    [][/\ total_calls' >= total_calls
       /\ successful_calls' >= successful_calls
       /\ (total_calls' # total_calls \/ successful_calls' # successful_calls)
            => ((\E c \in BOOLEAN : Entrypoint(c)) \/ OnDisconnect)]_vars

\* The counters of two calls, one completed, after a report, a stop_heartbeat
\* and a new start_heartbeat.
C30_Witness ==
    /\ variant = "GOBILiveKitAgent" /\ total_calls = 2 /\ successful_calls = 1
    /\ heartbeat_thread = 2 /\ is_running
    /\ NumOf("STOPPED") = 1 /\ NumOf("RUNNING") >= 1 /\ loginOk /\ deployOk

\* C26: module-level heartbeat API: once every entrypoint that called
\* init_heartbeat and start_heartbeat has returned from its stop_heartbeat, no
\* client is running and every client started has sent its unregister request.
C26_AllClientsStopped ==
    (\A e \in Entrypoints : entryPc[e].pc \in {"idle", "done"})
      => (\A c \in Entrypoints : clients[c] \in {"none", "unregistered"})

\* C31: GOBIAgent / GOBILocalAgent / HeartbeatClient: stop() called while the
\* object is not running changes nothing and sends nothing, and no STOPPED or
\* unregister report is issued as long as no run has started.
C31_StopNotRunningNoOp ==
    /\ [][(variant \in SignalVariants /\ ~is_running /\ StopBegin)
            => (UNCHANGED vars /\ mainPc' = "idle")]_vars
    /\ [][\A c \in StopCallers :
            (variant = "HeartbeatClient" /\ ~is_running /\ ClientStopBegin(c))
              => (UNCHANGED vars /\ stopPc'[c] = "idle")]_vars
    /\ []((variant \in SignalVariants \cup {"HeartbeatClient"} /\ heartbeat_thread = 0)
            => (NumOf("STOPPED") = 0 /\ NumOf("UNREGISTER") = 0))

\* A client that a stop() has stopped and unregistered, no stop() in progress:
\* one more stop() finds running False.
C31_Witness ==
    /\ variant = "HeartbeatClient" /\ ~is_running /\ heartbeat_thread = 1
    /\ \A c \in StopCallers : stopPc[c] = "idle"
    /\ NumOf("UNREGISTER") = 1 /\ session \notin openSessions
    /\ ENABLED ClientStopBegin("caller")

\* C33: GOBIAgent: is_authenticated is True only with an access_token.
C33_AuthenticatedHasToken ==
    (variant = "GOBIAgent" /\ is_authenticated) => access_token # "None"

\* The metrics thread t has built for the RUNNING report it is about to post.
ReportBuilt(t) ==
    /\ variant = "GOBILiveKitAgent" /\ hb[t] = "send"
    /\ agent_id # "None"
    /\ ReadsDone(metrics[t])

\* C34: GOBILiveKitAgent: in every RUNNING report, success_rate equals
\* successful_calls / total_calls * 100 of the total_calls and
\* successful_calls fields of the same report, and 0 when total_calls is 0.
C34_ReportConsistent ==
    \A t \in Threads :
        ReportBuilt(t) =>
            LET m == Metrics(metrics[t])
            IN  IF m.total_calls = 0
                  THEN m.success_rate[1] = 0
                  ELSE m.success_rate[1] * m.total_calls
                         = m.successful_calls * 100 * m.success_rate[2]

\* C35: GOBILiveKitAgent: successful_calls never exceeds total_calls, and the
\* success_rate of every RUNNING report lies between 0 and 100.
C35_RateWithinBounds ==
    /\ variant = "GOBILiveKitAgent" => successful_calls <= total_calls
    /\ \A t \in Threads :
          ReportBuilt(t) =>
              LET rate == Metrics(metrics[t]).success_rate
              IN  /\ rate[2] > 0
                  /\ 0 <= rate[1]
                  /\ rate[1] <= 100 * rate[2]

\* A report built while calls were counted between its reads: it holds
\* total_calls 1 and successful_calls 0, and its success_rate is 100.
C35_Witness ==
    /\ ReportBuilt(1)
    /\ metrics[1][1] = 1 /\ metrics[1][2] = 0
    /\ Metrics(metrics[1]).success_rate = <<200, 2>>
    /\ successful_calls = total_calls

\* C36: GOBILiveKitAgent: when deploy_agent returns True on an object whose
\* agent_config main has loaded, entrypoint is accepted afterwards, whatever
\* the body of the 200 response.
C36_AcceptedAfterDeploy ==
    [][\A r \in DeployResponses :
          (/\ variant = "GOBILiveKitAgent"
           /\ agent_config = "full"
           /\ Deploy("a1", r)
           /\ DeployOutcome("a1", r).ret)
            => EntrypointAccepted']_vars

\* Reports i and j of beatLog are RUNNING reports of one run: no STOPPED
\* report of a stop() lies between them.
SameRun(i, j) ==
    /\ i < j
    /\ \A k \in i..j : beatLog[k].status = "RUNNING"

\* C37: GOBIAgent: of two RUNNING reports of one run the later never carries
\* a smaller uptime_seconds, and carries a larger one when it is issued at a
\* later time.
C37_UptimeIncreasing ==
    variant = "GOBIAgent" =>
        \A i, j \in DOMAIN beatLog :
            SameRun(i, j) =>
                /\ beatLog[j].uptime >= beatLog[i].uptime
                /\ beatLog[j].at > beatLog[i].at
                     => beatLog[j].uptime > beatLog[i].uptime

====
